---- MODULE Spec2Model ----
(***************************************************************************)
(* pyKasa.py: one invocation of the command-line controller.              *)
(*                                                                         *)
(* main() validates the IP address and the --children string, then runs   *)
(* runCommand() under asyncio.timeout(): connect to the device, dispatch  *)
(* on the command, and (TpLinkKasaDevice.turn_on / turn_off / status)     *)
(* walk the list of child indices of a strip, or act on the device itself.*)
(*                                                                         *)
(* The kasa library is the external collaborator.  Its interface is the   *)
(* one the program uses: Device.connect, device_type, children, alias,    *)
(* is_on / is_off (a read of the current relay state) and turn_on /       *)
(* turn_off (awaited calls that either switch the relay or raise).        *)
(* Logger calls at DEBUG level are not modelled: they are not written at  *)
(* the default level and carry no outcome.                                 *)
(***************************************************************************)
EXTENDS Integers, Sequences, FiniteSets, TLC

\* ------------------------------------------------------------------ bounds
MaxOutlets == 3      \* a strip has 1..MaxOutlets child outlets
MaxSelLen == 3       \* generated index lists hold 1..MaxSelLen indices
MaxIndex == 2        \* generated index lists use the indices 0..MaxIndex

\* ------------------------------------------------- strings as char sequences
\* A string is a sequence of one-character strings.
DigitChars == <<"0", "1", "2", "3", "4", "5", "6", "7", "8", "9">>

IsDigit(c) == \E d \in 1..Len(DigitChars) : DigitChars[d] = c

DigitVal(c) == (CHOOSE d \in 1..Len(DigitChars) : DigitChars[d] = c) - 1

IsSpace(c) == c = "\n"

\* str.split(","): the fields between the commas, empty fields included.
RECURSIVE SplitFrom(_, _, _)
SplitFrom(s, i, cur) ==
    IF i > Len(s) THEN <<cur>>
    ELSE IF s[i] = "," THEN <<cur>> \o SplitFrom(s, i + 1, <<>>)
    ELSE SplitFrom(s, i + 1, Append(cur, s[i]))

Split(s) == SplitFrom(s, 1, <<>>)

\* str.strip() as int() applies it: whitespace off both ends.
RECURSIVE Strip(_)
Strip(t) ==
    IF t = <<>> THEN t
    ELSE IF IsSpace(t[1]) THEN Strip(Tail(t))
    ELSE IF IsSpace(t[Len(t)]) THEN Strip(SubSeq(t, 1, Len(t) - 1))
    ELSE t

RECURSIVE DigitsValue(_, _)
DigitsValue(t, acc) ==
    IF t = <<>> THEN acc ELSE DigitsValue(Tail(t), 10 * acc + DigitVal(t[1]))

AllDigits(t) == t # <<>> /\ \A i \in 1..Len(t) : IsDigit(t[i])

\* int(token): [ok |-> FALSE] stands for ValueError.
ParseInt(tok) ==
    LET t == Strip(tok)
        signed == t # <<>> /\ t[1] \in {"-", "+"}
        body == IF signed THEN Tail(t) ELSE t
    IN  IF AllDigits(body)
        THEN [ok |-> TRUE,
              val |-> IF signed /\ t[1] = "-" THEN 0 - DigitsValue(body, 0)
                      ELSE DigitsValue(body, 0)]
        ELSE [ok |-> FALSE, val |-> 0]

\* ------------------------------------------------ the --children regexes
\* "$" matches at the end of the string and before a final newline.
AtEnd(s, k) == k = Len(s) \/ (k = Len(s) - 1 /\ s[Len(s)] = "\n")

AllLiteral == <<"a", "l", "l">>

HasAllPrefix(s) == Len(s) >= 3 /\ SubSeq(s, 1, 3) = AllLiteral

\* s[1..k] is  [0-9](,[0-9])*
DigitCommaList(s, k) ==
    /\ k >= 1
    /\ k <= Len(s)
    /\ k % 2 = 1
    /\ \A i \in 1..k : IF i % 2 = 1 THEN IsDigit(s[i]) ELSE s[i] = ","

\* re.match(r"^all|([0-9](,[0-9])*)$", s): the alternation binds loosest, so
\* the pattern is  (^all)  |  (([0-9](,[0-9])*)$) , tried at position 0.
MatchOuter(s) ==
    \/ HasAllPrefix(s)
    \/ \E k \in 1..Len(s) : DigitCommaList(s, k) /\ AtEnd(s, k)

\* re.match(r"^all$", s)
MatchAll(s) == HasAllPrefix(s) /\ AtEnd(s, 3)

RECURSIVE MapInt(_)
MapInt(toks) ==
    IF toks = <<>> THEN <<>> ELSE <<ParseInt(toks[1])>> \o MapInt(Tail(toks))

\* main(), the --children block: the list handed to runCommand, or ValueError.
\*   [ok |-> TRUE, list |-> <<...>>]   children = [] or the parsed integers
\*   [ok |-> FALSE, ...]               list(map(int, ...)) raised ValueError
ParseChildren(s) ==
    IF MatchOuter(s)
    THEN IF MatchAll(s)
         THEN [ok |-> TRUE, list |-> <<>>]
         ELSE LET parsed == MapInt(Split(s))
              IN  IF \A i \in 1..Len(parsed) : parsed[i].ok
                  THEN [ok |-> TRUE, list |-> [i \in 1..Len(parsed) |-> parsed[i].val]]
                  ELSE [ok |-> FALSE, list |-> <<>>]
    ELSE [ok |-> TRUE, list |-> <<>>]

\* ------------------------------------------------------------------ inputs
command_options == {"on", "off", "toggle", "status"}

\* --command values: the choices of line 35, and one string outside them.
CommandArgs == command_options \cup {"hw-info"}

RECURSIVE CsvOf(_)
CsvOf(l) ==
    IF Len(l) = 1 THEN <<DigitChars[l[1] + 1]>>
    ELSE <<DigitChars[l[1] + 1], ",">> \o CsvOf(Tail(l))

IndexLists == UNION {[1..k -> 0..MaxIndex] : k \in 1..MaxSelLen}

\* --children values: "all" (the default), every list of 1..MaxSelLen
\* one-digit indices, and strings outside that form.
ChildrenArgs ==
    {CsvOf(l) : l \in IndexLists} \cup
    { AllLiteral,
      <<"a", "l", "l", "f", "o", "o">>,
      <<"a", "b", "c">>,
      <<"-", "1">>,
      <<>>,
      <<"1", "0">>,
      <<"1", ",", "1", "0">>,
      <<"0", ",", "2", ",", "2", ",", "1">> }

\* device_type of the connected device, and which types carry children in
\* the library: a Strip has child sockets, a Plug and a StripSocket have none.
DeviceTypes == {"Plug", "Strip", "StripSocket"}

RelaySeqs(n) == [1..n -> BOOLEAN]

Devices ==
    {[type |-> "Plug", relay |-> <<>>, on |-> b] : b \in BOOLEAN} \cup
    {[type |-> "StripSocket", relay |-> <<>>, on |-> b] : b \in BOOLEAN} \cup
    {[type |-> "Strip", relay |-> r, on |-> \E i \in 1..Len(r) : r[i]] :
        r \in UNION {RelaySeqs(n) : n \in 1..MaxOutlets}}

\* The device itself as a target (turn_on / turn_off / status, else branch).
DEV == 0 - 1

\* ------------------------------------------------------------------- state
VARIABLES
    command,      \* args.command
    childrenArg,  \* args.children
    ipValid,      \* whether args.ip matches the IP regex of main()
    devType,      \* iot_device.device_type
    relay,        \* relay[i + 1]: child i of the device is on
    devOn,        \* is_on of the device itself
    relay0,       \* relay at the start of the invocation
    devOn0,       \* devOn at the start of the invocation
    pc,           \* position of the main coroutine
    children,     \* the children list passed from main to the device method
    idx,          \* position of "for child in children" (1-based)
    calls,        \* the device calls issued so far, in order
    log,          \* the INFO / ERROR / CRITICAL lines logged so far, in order
    faulted,      \* targets whose turn_on / turn_off call raised
    terminal,     \* how main() ended
    expired,      \* the deadline of asyncio.timeout() has passed
    inflight      \* the device calls awaited and not yet returned

vars == <<command, childrenArg, ipValid, devType, relay, devOn, relay0, devOn0,
          pc, children, idx, calls, log, faulted, terminal, expired, inflight>>

inputVars == <<command, childrenArg, ipValid, devType, relay0, devOn0>>

NumChildren == Len(relay)

IsOn(t) == IF t = DEV THEN devOn ELSE relay[t + 1]

Call(op, t, ph) == [op |-> op, tgt |-> t, ph |-> ph]

\* One logged line.  tgt: the target the line is about (DEV for the device);
\* label: the state text; child: whose alias is printed in the "Child:"
\* position (a child index, DEV for the parent's alias, NoName for none).
NoName == 0 - 2
NoLabel == "-"
Line(lvl, kind, t, label, child) ==
    [lvl |-> lvl, kind |-> kind, tgt |-> t, label |-> label, child |-> child]

Init ==
    /\ command \in CommandArgs
    /\ childrenArg \in ChildrenArgs
    /\ ipValid \in BOOLEAN
    /\ \E d \in Devices :
        /\ devType = d.type
        /\ relay = d.relay
        /\ devOn = d.on
    /\ relay0 = relay
    /\ devOn0 = devOn
    /\ pc = "start"
    /\ children = <<>>
    /\ idx = 0
    /\ calls = <<>>
    /\ log = <<>>
    /\ faulted = {}
    /\ terminal = "none"
    /\ expired = FALSE
    /\ inflight = {}

\* ------------------------------------------------------------ main(), head
Finish(how) ==
    /\ pc' = "done"
    /\ terminal' = how

\* 35, 42: parse_args() refuses a --command outside the choices and exits
\* with a usage error before main() runs.
ParseArgsReject ==
    /\ pc = "start"
    /\ command \notin command_options
    /\ Finish("usage")
    /\ UNCHANGED <<inputVars, expired, inflight, relay, devOn, children, idx, calls, log, faulted>>

\* main() 394-402: the address does not match; CRITICAL line, exit().
MainInvalidIP ==
    /\ pc = "start"
    /\ command \in command_options
    /\ ~ipValid
    /\ log' = Append(log, Line("critical", "invalid_ip", DEV, NoLabel, NoName))
    /\ Finish("exit")
    /\ UNCHANGED <<inputVars, expired, inflight, relay, devOn, children, idx, calls, faulted>>

\* main() 404-418 and runCommand 271-276: the children list is built and the
\* connect call is issued under asyncio.timeout().
MainRunCommand ==
    /\ pc = "start"
    /\ command \in command_options
    /\ ipValid
    /\ ParseChildren(childrenArg).ok
    /\ children' = ParseChildren(childrenArg).list
    /\ calls' = Append(calls, Call("connect", DEV, "call"))
    /\ pc' = "connecting"
    /\ inflight' = inflight \cup {Call("connect", DEV, "call")}
    /\ UNCHANGED <<inputVars, expired, relay, devOn, idx, log, faulted, terminal>>

\* main() 409: int() raises ValueError outside the try block of 414-426.
MainValueError ==
    /\ pc = "start"
    /\ command \in command_options
    /\ ipValid
    /\ ~ParseChildren(childrenArg).ok
    /\ Finish("ValueError")
    /\ UNCHANGED <<inputVars, expired, inflight, relay, devOn, children, idx, calls, log, faulted>>

\* ----------------------------------------------- TpLinkKasaDevice.connect
\* 72-85: a device came back; its description is logged.
ConnectOk ==
    /\ pc = "connecting"
    /\ ~expired
    /\ log' = Append(log, Line("info", "device", DEV, NoLabel, NoName))
    /\ pc' = "dispatch"
    /\ inflight' = inflight \ {Call("connect", DEV, "call")}
    /\ UNCHANGED <<inputVars, expired, relay, devOn, children, idx, calls, faulted, terminal>>

\* The failure is logged and the command is run all the same.
ConnectFail_Continues ==
    /\ pc = "connecting"
    /\ ~expired
    /\ log' = Append(log, Line("critical", "error", DEV, NoLabel, NoName))
    /\ pc' = "dispatch"
    /\ inflight' = inflight \ {Call("connect", DEV, "call")}
    /\ UNCHANGED <<inputVars, expired, relay, devOn, children, idx, calls, faulted, terminal>>

\* 72 raises, or 86-87 raises TpLinkKasaDeviceException for a falsy device;
\* either way main() 425-426 logs the error.
ConnectFail ==
    /\ pc = "connecting"
    /\ ~expired
    /\ log' = Append(log, Line("critical", "error", DEV, NoLabel, NoName))
    /\ Finish("error")
    /\ inflight' = inflight \ {Call("connect", DEV, "call")}
    /\ UNCHANGED <<inputVars, expired, relay, devOn, children, idx, calls, faulted>>

\* ------------------------------------------------------------- runCommand
\* 279-289: the method a command runs, "unknown" for the else branch.
Dispatch_Swapped(cmd) ==
    IF cmd = "on" THEN "turn_off"
    ELSE IF cmd = "off" THEN "turn_on"
    ELSE IF cmd = "status" THEN "status"
    ELSE "unknown"

Dispatch_StatusSwitches(cmd) ==
    IF cmd = "on" THEN "turn_on"
    ELSE IF cmd = "off" THEN "turn_off"
    ELSE IF cmd = "status" THEN "turn_on"
    ELSE "unknown"

Dispatch(cmd) ==
    IF cmd = "on" THEN "turn_on"
    ELSE IF cmd = "off" THEN "turn_off"
    ELSE IF cmd = "status" THEN "status"
    ELSE "unknown"

\* 98 / 131 / 164: self.type in (Strip, StripSocket)
\* As runCommand_OLD 212 tests it: "Strip or StripSocket", a truthy value.
IsStripType_Truthy(t) == TRUE

IsStripType(t) == t \in {"Strip", "StripSocket"}

\* 100-101 / 133-134 / 166-167: range(len(current_device.children))
AllChildren_FromOne(n) == [i \in 1..n |-> i]

AllChildren(n) == [i \in 1..n |-> i - 1]

\* 99-103: an empty children list is filled with every child index.
ResolveChildren(given, n) == IF ~(Len(given) > 0) THEN AllChildren(n) ELSE given

\* 288-289: no branch for the command.
RunUnknown ==
    /\ pc = "dispatch"
    /\ Dispatch(command) = "unknown"
    /\ log' = Append(log, Line("critical", "unknown_command", DEV, NoLabel, NoName))
    /\ Finish("returned")
    /\ UNCHANGED <<inputVars, expired, inflight, relay, devOn, children, idx, calls, faulted>>

\* turn_on 98-103, turn_off 131-136, status 164-169: the strip branch.
EnterStrip ==
    /\ pc = "dispatch"
    /\ Dispatch(command) # "unknown"
    /\ IsStripType(devType)
    /\ children' = ResolveChildren(children, NumChildren)
    /\ log' = Append(log, Line("info", "header", DEV, NoLabel, NoName))
    /\ idx' = 1
    /\ pc' = "loop"
    /\ UNCHANGED <<inputVars, expired, inflight, relay, devOn, calls, faulted, terminal>>

\* turn_on 115, turn_off 148, status 179: the else branch.
EnterSingle ==
    /\ pc = "dispatch"
    /\ Dispatch(command) # "unknown"
    /\ ~IsStripType(devType)
    /\ pc' = "single"
    /\ UNCHANGED <<inputVars, expired, inflight, relay, devOn, children, idx, calls, log, faulted, terminal>>

\* ------------------------------------------ turn_on / turn_off / status
Method == Dispatch(command)

\* The property read that guards the call: 108 / 116 is_off, 141 / 149 is_on,
\* 175 / 181 is_off.
GuardOp(m) == IF m = "turn_off" THEN "is_on" ELSE "is_off"

\* 108 / 116: if is_off, then turn_on; 141 / 149: if is_on, then turn_off.
NeedsCall_Always(m, on) == TRUE

NeedsCall_Never(m, on) == FALSE

NeedsCall(m, on) == IF m = "turn_on" THEN ~on ELSE on

\* The relay state a successful call leaves.
Switched(m) == m = "turn_on"

\* The property read for the logged state: 111 / 119 is_on, else is_off.
LabelOp(m) == IF m = "turn_on" THEN "is_on" ELSE "is_off"

\* 111 / 119: "ON" if is_on else "OFF"; 144 / 152 / 175 / 181: "OFF" if
\* is_off else "ON".
Label(on) == IF on THEN "ON" ELSE "OFF"

\* The alias printed after "Child:": 111 current_device.alias (the parent),
\* 144 and 175 current_child.alias.
ChildAlias(m, child) == IF m = "turn_on" THEN DEV ELSE child

\* current_device.children[child] raises IndexError outside the list; the
\* parsed indices are never negative.
InRange(child, n) == child >= 0 /\ child < n

\* The loop goes on with the next child after the except clause 113-114 /
\* 146-147 / 177-178.
AfterError_Abort(i) == Len(children) + 1

AfterError(i) == i + 1

SetRelay(t, on) ==
    IF t = DEV
    THEN /\ devOn' = on
         /\ relay' = relay
    ELSE /\ relay' = [relay EXCEPT ![t + 1] = on]
         /\ devOn' = \E i \in 1..Len(relay) : relay'[i]

CurTarget == IF IsStripType(devType) THEN children[idx] ELSE DEV

\* "for child in children" is exhausted: the method, runCommand and the try
\* block of main() return.
LoopEnd ==
    /\ pc = "loop"
    /\ idx > Len(children)
    /\ Finish("returned")
    /\ UNCHANGED <<inputVars, expired, inflight, relay, devOn, children, idx, calls, log, faulted>>

\* 106 / 139 / 172 raise IndexError; 113-114 / 146-147 / 177-178 log it.
ChildIndexError ==
    /\ pc = "loop"
    /\ idx <= Len(children)
    /\ ~InRange(children[idx], NumChildren)
    /\ log' = Append(log, Line("error", "child_error", children[idx], NoLabel, NoName))
    /\ idx' = AfterError(idx)
    /\ UNCHANGED <<inputVars, expired, inflight, relay, devOn, pc, children, calls, faulted, terminal>>

\* 108 / 141 with the guard false: nothing is called and nothing is logged.
ChildAlready ==
    /\ pc = "loop"
    /\ idx <= Len(children)
    /\ InRange(children[idx], NumChildren)
    /\ Method \in {"turn_on", "turn_off"}
    /\ ~NeedsCall(Method, IsOn(children[idx]))
    /\ calls' = Append(calls, Call(GuardOp(Method), children[idx], "guard"))
    /\ idx' = idx + 1
    /\ UNCHANGED <<inputVars, expired, inflight, relay, devOn, pc, children, log, faulted, terminal>>

\* The call is started and not awaited: the loop goes on at once.
ChildCall_NoAwait ==
    /\ pc = "loop"
    /\ idx <= Len(children)
    /\ InRange(children[idx], NumChildren)
    /\ Method \in {"turn_on", "turn_off"}
    /\ NeedsCall(Method, IsOn(children[idx]))
    /\ calls' = calls \o <<Call(GuardOp(Method), children[idx], "guard"),
                           Call(Method, children[idx], "call")>>
    /\ idx' = idx + 1
    /\ inflight' = inflight \cup {Call(Method, children[idx], "call")}
    /\ UNCHANGED <<inputVars, expired, relay, devOn, pc, children, log, faulted, terminal>>

\* 108-109 / 141-142: the guard holds and the call is awaited.
ChildCall ==
    /\ pc = "loop"
    /\ idx <= Len(children)
    /\ InRange(children[idx], NumChildren)
    /\ Method \in {"turn_on", "turn_off"}
    /\ NeedsCall(Method, IsOn(children[idx]))
    /\ calls' = calls \o <<Call(GuardOp(Method), children[idx], "guard"),
                           Call(Method, children[idx], "call")>>
    /\ pc' = "mutating"
    /\ inflight' = inflight \cup {Call(Method, children[idx], "call")}
    /\ UNCHANGED <<inputVars, expired, relay, devOn, children, idx, log, faulted, terminal>>

\* 172-176: the child's state is logged.
ChildStatus ==
    /\ pc = "loop"
    /\ idx <= Len(children)
    /\ InRange(children[idx], NumChildren)
    /\ Method = "status"
    /\ calls' = Append(calls, Call(GuardOp(Method), children[idx], "guard"))
    /\ log' = Append(log, Line("info", "state", children[idx],
                               Label(IsOn(children[idx])),
                               ChildAlias(Method, children[idx])))
    /\ idx' = idx + 1
    /\ UNCHANGED <<inputVars, expired, inflight, relay, devOn, pc, children, faulted, terminal>>

\* 116 / 149 with the guard false.
SingleAlready ==
    /\ pc = "single"
    /\ Method \in {"turn_on", "turn_off"}
    /\ ~NeedsCall(Method, IsOn(DEV))
    /\ calls' = Append(calls, Call(GuardOp(Method), DEV, "guard"))
    /\ Finish("returned")
    /\ UNCHANGED <<inputVars, expired, inflight, relay, devOn, children, idx, log, faulted>>

\* 116-117 / 149-150.
SingleCall ==
    /\ pc = "single"
    /\ Method \in {"turn_on", "turn_off"}
    /\ NeedsCall(Method, IsOn(DEV))
    /\ calls' = calls \o <<Call(GuardOp(Method), DEV, "guard"),
                           Call(Method, DEV, "call")>>
    /\ pc' = "mutating"
    /\ inflight' = inflight \cup {Call(Method, DEV, "call")}
    /\ UNCHANGED <<inputVars, expired, relay, devOn, children, idx, log, faulted, terminal>>

\* 180-182.
SingleStatus ==
    /\ pc = "single"
    /\ Method = "status"
    /\ calls' = Append(calls, Call(GuardOp(Method), DEV, "guard"))
    /\ log' = Append(log, Line("info", "state", DEV, Label(IsOn(DEV)), NoName))
    /\ Finish("returned")
    /\ UNCHANGED <<inputVars, expired, inflight, relay, devOn, children, idx, faulted>>

\* The awaited turn_on / turn_off returns: 110-112 / 143-145 for a child,
\* 118-120 / 151-153 for the device; the state is read again for the line.
MutateOk ==
    /\ pc = "mutating"
    /\ ~expired
    /\ SetRelay(CurTarget, Switched(Method))
    /\ calls' = Append(calls, Call(LabelOp(Method), CurTarget, "label"))
    /\ IF IsStripType(devType)
       THEN /\ log' = Append(log, Line("info", "state", CurTarget,
                                       Label(Switched(Method)),
                                       ChildAlias(Method, CurTarget)))
            /\ idx' = idx + 1
            /\ pc' = "loop"
            /\ UNCHANGED terminal
       ELSE /\ log' = Append(log, Line("info", "state", DEV,
                                       Label(Switched(Method)), NoName))
            /\ Finish("returned")
            /\ UNCHANGED idx
    /\ inflight' = inflight \ {Call(Method, CurTarget, "call")}
    /\ UNCHANGED <<inputVars, expired, children, faulted>>

\* The awaited call raises.  For a child, 113-114 / 146-147 log the error and
\* the loop goes on; for the device, main() 425-426 logs it.
MutateFault ==
    /\ pc = "mutating"
    /\ ~expired
    /\ faulted' = faulted \cup {CurTarget}
    /\ IF IsStripType(devType)
       THEN /\ log' = Append(log, Line("error", "child_error", CurTarget,
                                       NoLabel, NoName))
            /\ idx' = AfterError(idx)
            /\ pc' = "loop"
            /\ UNCHANGED terminal
       ELSE /\ log' = Append(log, Line("critical", "error", DEV, NoLabel, NoName))
            /\ Finish("error")
            /\ UNCHANGED idx
    /\ inflight' = inflight \ {Call(Method, CurTarget, "call")}
    /\ UNCHANGED <<inputVars, expired, relay, devOn, children, calls>>

\* main() 416: the deadline of asyncio.timeout() passes.  It can pass at any
\* point inside the "async with" block; the event loop acts on it only while
\* the coroutine is suspended in an awaited call.
Expire ==
    /\ pc \in {"connecting", "dispatch", "loop", "single", "mutating"}
    /\ ~expired
    /\ expired' = TRUE
    /\ UNCHANGED <<inputVars, inflight, relay, devOn, pc, children, idx, calls, log,
                   faulted, terminal>>

\* The cancellation of a child's call is caught by 113 / 146 like an error.
Timeout_Swallowed ==
    /\ pc \in {"connecting", "mutating"}
    /\ expired
    /\ UNCHANGED <<relay, devOn>>
    /\ IF pc = "mutating" /\ IsStripType(devType)
       THEN /\ log' = Append(log, Line("error", "child_error", CurTarget,
                                       NoLabel, NoName))
            /\ idx' = AfterError(idx)
            /\ pc' = "loop"
            /\ UNCHANGED terminal
       ELSE /\ log' = Append(log, Line("critical", "timeout", DEV, NoLabel, NoName))
            /\ Finish("timeout")
            /\ UNCHANGED idx
    /\ inflight' = {}
    /\ UNCHANGED <<inputVars, expired, children, calls, faulted>>

\* main() 416, 419-423: with the deadline passed, asyncio.timeout() cancels
\* the awaited call (connect, turn_on or turn_off); the cancellation is no
\* Exception, so 113 / 146 do not catch it.  A cancelled turn_on / turn_off
\* may or may not have switched the relay.  An awaited call returns or raises
\* (ConnectOk, ConnectFail, MutateOk, MutateFault) only before the deadline.
Timeout ==
    /\ pc \in {"connecting", "mutating"}
    /\ expired
    /\ IF pc = "mutating"
       THEN \E applied \in BOOLEAN :
                IF applied THEN SetRelay(CurTarget, Switched(Method))
                ELSE UNCHANGED <<relay, devOn>>
       ELSE UNCHANGED <<relay, devOn>>
    /\ log' = Append(log, Line("critical", "timeout", DEV, NoLabel, NoName))
    /\ Finish("timeout")
    /\ inflight' = {}
    /\ UNCHANGED <<inputVars, expired, children, idx, calls, faulted>>

Next ==
    \/ ParseArgsReject
    \/ MainInvalidIP
    \/ MainRunCommand
    \/ MainValueError
    \/ ConnectOk
    \/ ConnectFail
    \/ RunUnknown
    \/ EnterStrip
    \/ EnterSingle
    \/ LoopEnd
    \/ ChildIndexError
    \/ ChildAlready
    \/ ChildCall
    \/ ChildStatus
    \/ SingleAlready
    \/ SingleCall
    \/ SingleStatus
    \/ MutateOk
    \/ MutateFault
    \/ Expire
    \/ Timeout

Spec == Init /\ [][Next]_vars

\* =================================================================== claims
\* ------------------------------------------------- what the claims speak of
IsPrefix(a, b) == Len(a) <= Len(b) /\ a = SubSeq(b, 1, Len(a))

CountCalls(op, t) ==
    Cardinality({i \in 1..Len(calls) : calls[i].op = op /\ calls[i].tgt = t})

MutateCalls(t) == CountCalls("turn_on", t) + CountCalls("turn_off", t)

GuardReads == SelectSeq(calls, LAMBDA c : c.ph = "guard")

\* The targets the command was applied to, in order, one entry per visit.
Visited == [i \in 1..Len(GuardReads) |-> GuardReads[i].tgt]

Visits(t) == Cardinality({i \in 1..Len(Visited) : Visited[i] = t})

CountLines(kinds, t) ==
    Cardinality({i \in 1..Len(log) : log[i].kind \in kinds /\ log[i].tgt = t})

ChildTargets == 0..(NumChildren - 1)

AllTargets == ChildTargets \cup {DEV}

IsOn0(t) == IF t = DEV THEN devOn0 ELSE relay0[t + 1]

Connected == \E i \in 1..Len(log) : log[i].kind = "device"

TookStripBranch == \E i \in 1..Len(log) : log[i].kind = "header"

Returned == pc = "done" /\ terminal = "returned"

\* The selector grammar of the specification: "all", or a comma-separated
\* list of non-negative integers of any number of digits.
WellFormedSel(s) ==
    LET toks == Split(s) IN \A i \in 1..Len(toks) : AllDigits(toks[i])

Malformed(s) == s # AllLiteral /\ ~WellFormedSel(s)

SelIndexSet(s) ==
    LET toks == Split(s) IN {DigitsValue(toks[i], 0) : i \in 1..Len(toks)}

\* The elements of a finite set of integers in ascending order.
RECURSIVE Ascending(_)
Ascending(S) ==
    IF S = {} THEN <<>>
    ELSE LET m == CHOOSE x \in S : \A y \in S : x <= y
         IN  <<m>> \o Ascending(S \ {m})

NewCalls == SubSeq(calls', Len(calls) + 1, Len(calls'))

NewCount(op, t) ==
    Cardinality({i \in 1..Len(NewCalls) : NewCalls[i].op = op /\ NewCalls[i].tgt = t})

VisitedNow(t) ==
    \E i \in 1..Len(NewCalls) : NewCalls[i].ph = "guard" /\ NewCalls[i].tgt = t

\* ------------------------------------------------------------------- C1
C1_Visit ==
    \A t \in AllTargets :
        /\ command = "on" =>
              NewCount("turn_on", t) = (IF VisitedNow(t) /\ ~IsOn(t) THEN 1 ELSE 0)
        /\ command = "off" =>
              NewCount("turn_off", t) = (IF VisitedNow(t) /\ IsOn(t) THEN 1 ELSE 0)

C1_Invocation ==
    \A t \in AllTargets :
        /\ (command = "on" /\ IsOn0(t)) => CountCalls("turn_on", t) = 0
        /\ (command = "on" /\ ~IsOn0(t) /\ Visits(t) > 0 /\ t \notin faulted) =>
              CountCalls("turn_on", t) = 1
        /\ (command = "off" /\ ~IsOn0(t)) => CountCalls("turn_off", t) = 0
        /\ (command = "off" /\ IsOn0(t) /\ Visits(t) > 0 /\ t \notin faulted) =>
              CountCalls("turn_off", t) = 1

\* C1: power-on issues no turn_on call to a target that is ON and exactly one
\* to a target that is OFF, and power-off issues no turn_off call to a target
\* that is OFF and exactly one to a target that is ON, for the device itself
\* and for every child outlet: at every visit of a target, and over the
\* whole invocation for every target whose call did not raise.
C1_Idempotent == [][C1_Visit /\ C1_Invocation']_vars

\* A strip after power-on where one visited outlet was ON (no call) and
\* another was OFF (one call).
C1_Witness ==
    /\ Returned
    /\ command = "on"
    /\ \E t, u \in ChildTargets :
        /\ IsOn0(t) /\ Visits(t) > 0 /\ CountCalls("turn_on", t) = 0
        /\ ~IsOn0(u) /\ Visits(u) > 0 /\ CountCalls("turn_on", u) = 1

\* ------------------------------------------------------------------- C2
\* C2: for power-on or power-off with a well-formed explicit selector S on a
\* strip, every outlet whose index is not in S keeps its power state and
\* receives no turn_on or turn_off call.
C2_UnselectedUntouched ==
    (/\ command \in {"on", "off"}
     /\ devType = "Strip"
     /\ WellFormedSel(childrenArg)) =>
        \A i \in ChildTargets :
            i \notin SelIndexSet(childrenArg) =>
                /\ IsOn(i) = IsOn0(i)
                /\ MutateCalls(i) = 0

\* ------------------------------------------------------------------- C3
\* C3: a malformed child selector ends the invocation with a selector
\* failure before any device call (connect, query or mutate) is made.
C3_MalformedRejected ==
    (command \in command_options /\ ipValid /\ Malformed(childrenArg)) =>
        /\ calls = <<>>
        /\ pc = "done" => terminal = "ValueError"

\* ------------------------------------------------------------------- C4
\* C4: for an explicit selector S on a strip with N outlets, the targets the
\* command is applied to are the in-range indices of S, each once, in
\* ascending order.
C4_SortedDeduplicated ==
    (/\ Returned
     /\ devType = "Strip"
     /\ Method # "unknown"
     /\ WellFormedSel(childrenArg)) =>
        Visited = Ascending(SelIndexSet(childrenArg) \cap ChildTargets)

\* ------------------------------------------------------------------- C5
\* C5: with the selector "all" on a strip with N outlets, each of on, off and
\* status visits the outlets 0..N-1 in ascending order, each once: never
\* anything but a prefix of 0..N-1, and all of it when the command returns.
C5_AllVisitsEachOnce ==
    (/\ childrenArg = AllLiteral
     /\ IsStripType(devType)
     /\ Method # "unknown") =>
        /\ IsPrefix(Visited, [i \in 1..NumChildren |-> i - 1])
        /\ Returned => Visited = [i \in 1..NumChildren |-> i - 1]

\* A strip of at least two outlets after "all" returned, every outlet visited.
C5_Witness ==
    /\ Returned
    /\ childrenArg = AllLiteral
    /\ devType = "Strip"
    /\ Method # "unknown"
    /\ NumChildren >= 2
    /\ Len(Visited) = NumChildren

\* ------------------------------------------------------------------- C6
FailedPositions ==
    {i \in 1..Len(children) : ~InRange(children[i], NumChildren)}

ListedTargets == {children[i] : i \in 1..Len(children)} \cap ChildTargets

\* The state and the calls a target would get from the command on its own.
AloneState(m, t) == IF m = "status" THEN IsOn0(t) ELSE Switched(m)

AloneCalls(m, t) ==
    IF m # "status" /\ NeedsCall(m, IsOn0(t)) THEN 1 ELSE 0

\* C6: on a strip, when the call on one target raises or an index is out of
\* range, the error is logged for that target only, every position of the
\* target list is still attempted, and every other target ends in the state
\* and with the calls it would have had on its own.
C6_PartialFailure ==
    (Returned /\ IsStripType(devType) /\ Method # "unknown") =>
        /\ Len(Visited) + Cardinality(FailedPositions) = Len(children)
        /\ \A i \in 1..Len(log) :
              log[i].kind = "child_error" =>
                  \/ ~InRange(log[i].tgt, NumChildren)
                  \/ log[i].tgt \in faulted
        /\ \A t \in ListedTargets \ faulted :
              /\ Visits(t) > 0
              /\ IsOn(t) = AloneState(Method, t)
              /\ MutateCalls(t) = AloneCalls(Method, t)
              /\ CountLines({"child_error"}, t) = 0
              /\ CountLines({"state"}, t) =
                    (IF Method = "status" THEN Visits(t) ELSE AloneCalls(Method, t))

\* A returned power command on a strip where an earlier position of the list
\* failed (a raised call or an index out of range) and a later target was
\* still switched.
C6_Witness ==
    /\ Returned
    /\ devType = "Strip"
    /\ Method \in {"turn_on", "turn_off"}
    /\ \E i, j \in 1..Len(children) :
        /\ i < j
        /\ children[i] \in faulted \/ ~InRange(children[i], NumChildren)
        /\ children[j] \in ListedTargets \ faulted
        /\ IsOn(children[j]) # IsOn0(children[j])
    /\ faulted # {}

\* ------------------------------------------------------------------- C7
\* C7: every index of an explicit selector that is >= the outlet count gives
\* exactly one per-index error line and the invocation goes on to return.
C7_OutOfRangeOneError ==
    (/\ Returned
     /\ devType = "Strip"
     /\ Method # "unknown"
     /\ WellFormedSel(childrenArg)) =>
        \A v \in SelIndexSet(childrenArg) :
            v >= NumChildren =>
                /\ CountLines({"child_error"}, v) = 1
                /\ (SelIndexSet(childrenArg) \cap ChildTargets = {} =>
                        \A t \in ChildTargets : MutateCalls(t) = 0)

\* ------------------------------------------------------------------- C8
\* C8: every visit of a resolved target yields exactly one outcome line
\* (a state line, or an error line when its call raised).
C8_OneOutcomePerTarget ==
    (Returned /\ Method # "unknown") =>
        \A t \in AllTargets :
            CountLines({"state", "child_error", "error"}, t) = Visits(t)

\* ------------------------------------------------------------------- C9
\* C9: the status command issues no turn_on or turn_off call and leaves the
\* power state of every outlet and of the device unchanged.
C9_StatusReadOnly ==
    command = "status" =>
        /\ relay = relay0
        /\ devOn = devOn0
        /\ \A i \in 1..Len(calls) : calls[i].op \notin {"turn_on", "turn_off"}

\* A returned status command on a strip that read an ON and an OFF outlet.
C9_Witness ==
    /\ Returned
    /\ command = "status"
    /\ \E t, u \in ChildTargets :
        /\ Visits(t) > 0 /\ IsOn(t)
        /\ Visits(u) > 0 /\ ~IsOn(u)

\* ------------------------------------------------------------------ C10
PastDispatch ==
    /\ Connected
    /\ Method # "unknown"
    /\ pc \in {"loop", "single", "mutating", "done"}

LoggedKind(kind) == \E i \in 1..Len(log) : log[i].kind = kind

\* C11: a command the dispatcher does not support is rejected before any
\* device contact: no connect call precedes the "Unknown or unsupported
\* command" line.
C11_UnknownBeforeContact ==
    LoggedKind("unknown_command") =>
        \A i \in 1..Len(calls) : calls[i].op # "connect"

\* ------------------------------------------------------------------ C12
TimeoutLines == CountLines({"timeout"}, DEV)

\* C12 as stated: once the deadline has passed no device call is issued, and
\* the invocation ends with the timeout failure, reported once.
C12_ExpiryEndsInvocation ==
    [][/\ expired => calls' = calls
       /\ (expired' /\ pc' = "done") => (terminal' = "timeout" /\ TimeoutLines' = 1)
      ]_vars

C12_Delivery ==
    /\ (expired /\ inflight # {}) => (terminal' = "timeout" /\ calls' = calls)
    /\ TimeoutLines >= 1 => (calls' = calls /\ log' = log)

C12_Reported ==
    /\ TimeoutLines <= 1
    /\ terminal = "timeout" <=> TimeoutLines = 1
    /\ terminal = "timeout" =>
          /\ pc = "done"
          /\ expired
          /\ inflight = {}
          /\ log[Len(log)].kind = "timeout"

\* C12 amended: when the deadline has passed while a device call is awaited
\* (connect, turn_on or turn_off), that call is cancelled, the invocation
\* ends with the timeout failure reported exactly once and no call is issued
\* afterwards.  (A deadline that passes between awaited calls is acted on
\* only at the next awaited call.)
C12_DeliveredTimeout == [][C12_Delivery /\ C12_Reported']_vars

\* A timeout that cancelled the call on a later target of a strip, after an
\* earlier target had been switched and reported.
C12_Witness ==
    /\ pc = "done"
    /\ terminal = "timeout"
    /\ LoggedKind("state")
    /\ \E t, u \in ChildTargets : t # u /\ MutateCalls(t) = 1 /\ MutateCalls(u) = 1

\* ------------------------------------------------------------------ C13
ConnectFailed == pc = "done" /\ terminal = "error" /\ ~Connected

\* C13: when connecting fails, the failure is reported exactly once, the
\* invocation ends, and no per-target query or mutate call is ever issued:
\* without a connected device the only call is the connect call.
C13_ConnectFailure ==
    /\ ~Connected => \A i \in 1..Len(calls) : calls[i].op = "connect"
    /\ ~Connected => ~LoggedKind("header") /\ ~LoggedKind("state")
    /\ ConnectFailed =>
          /\ log = <<Line("critical", "error", DEV, NoLabel, NoName)>>
          /\ calls = <<Call("connect", DEV, "call")>>
          /\ inflight = {}

\* A failed connect of a power-on invocation for a strip with an OFF outlet.
C13_Witness ==
    /\ ConnectFailed
    /\ devType = "Strip"
    /\ command = "on"
    /\ \E t \in ChildTargets : ~IsOn(t)

\* ------------------------------------------------------------------ C14
\* The targets the selector resolves to on the connected device.
ResolvedTargets ==
    IF ~IsStripType(devType) THEN {DEV}
    ELSE IF childrenArg = AllLiteral THEN ChildTargets
    ELSE IF WellFormedSel(childrenArg) THEN SelIndexSet(childrenArg) \cap ChildTargets
    ELSE {}

\* C14: toggle leaves every resolved target in the negation of its state,
\* with exactly one turn_on / turn_off call.
C14_ToggleSwitches ==
    (command = "toggle" /\ Returned) =>
        \A t \in ResolvedTargets :
            /\ IsOn(t) = ~IsOn0(t)
            /\ MutateCalls(t) = 1

\* ------------------------------------------------------------------ C15
\* C15: the hardware-info command reads the hardware info exactly once, does
\* not iterate over the outlets and changes no power state.
C15_HwInfoOnce ==
    (command = "hw-info" /\ pc = "done") =>
        /\ CountCalls("hw_info", DEV) = 1
        /\ Visited = <<>>
        /\ relay = relay0
        /\ devOn = devOn0

\* ------------------------------------------------------------------ C16
\* C16: every state line logged for a child outlet of a strip carries that
\* child's own alias in the "Child:" position.
C16_ChildNamed ==
    \A i \in 1..Len(log) :
        (log[i].kind = "state" /\ log[i].tgt # DEV) => log[i].child = log[i].tgt

\* ------------------------------------------------------------------ C17
\* C17: when power-on returns with no raised call and no timeout, every
\* in-range target of the selector and of the list the loop walked is ON;
\* when power-off returns likewise, every such target is OFF.
C17_FinalState ==
    (Returned /\ faulted = {} /\ command \in {"on", "off"}) =>
        \A t \in ResolvedTargets \cup ListedTargets :
            IsOn(t) = (command = "on")

\* A returned power-on whose list names an outlet twice, the outlet having
\* been OFF.
C17_Witness ==
    /\ Returned
    /\ faulted = {}
    /\ command = "on"
    /\ \E i, j \in 1..Len(children) :
        /\ i < j
        /\ children[i] = children[j]
        /\ children[i] \in ChildTargets
        /\ ~IsOn0(children[i])
        /\ IsOn(children[i])

\* ------------------------------------------------------------------ C18
\* C18: at most one device call is awaited at any time, and nothing is
\* issued while it is awaited: a call in flight is the last call issued.
C18_Serial ==
    /\ Cardinality(inflight) <= 1
    /\ \A c \in inflight : calls[Len(calls)] = c
    /\ inflight # {} <=> pc \in {"connecting", "mutating"}

\* The call on a later target of a strip in flight, after the call on an
\* earlier target returned.
C18_Witness ==
    /\ pc = "mutating"
    /\ devType = "Strip"
    /\ \E t \in ChildTargets :
        /\ t # CurTarget
        /\ MutateCalls(t) = 1
        /\ CountLines({"state"}, t) = 1

\* ------------------------------------------------------------------ C19
NoNewCall(op) == \A i \in 1..Len(NewCalls) : NewCalls[i].op # op

\* C19: power-on never issues turn_off and no target goes from ON to OFF
\* during it; power-off never issues turn_on and no target goes from OFF to
\* ON during it.
C19_OneDirection ==
    [][/\ command = "on" =>
            /\ NoNewCall("turn_off")
            /\ \A t \in AllTargets : IsOn(t) => IsOn(t)'
       /\ command = "off" =>
            /\ NoNewCall("turn_on")
            /\ \A t \in AllTargets : ~IsOn(t) => ~IsOn(t)'
      ]_vars

\* A returned power-on on a strip where one call raised, one outlet was ON
\* from the start and one was switched on.
C19_Witness ==
    /\ Returned
    /\ command = "on"
    /\ faulted # {}
    /\ \E t, u \in ChildTargets :
        /\ IsOn0(t) /\ Visits(t) > 0 /\ IsOn(t)
        /\ ~IsOn0(u) /\ IsOn(u)

\* ------------------------------------------------------------------ C20
\* C20: every invocation that ends, ends with a handled terminal status:
\* the try block returned (success, or the unknown-command line), the logged
\* error of main() 425-426, the timeout of 419-423, the exit() of 402 or the
\* usage error of parse_args(); never through an uncaught exception.
C20_HandledEnding ==
    pc = "done" => terminal \in {"returned", "error", "timeout", "exit", "usage"}

====
